---- MODULE Spec2Model ----
(***************************************************************************)
(* A model of repo_exporter.py (the Selector iter_files / is_binary, the   *)
(* Workbook Builder build_excel, its helpers sheet_safe and top_level) and *)
(* of repo_exporter_gui.py (RepoExporterGUI).                              *)
(*                                                                         *)
(* Text is a sequence of one-character strings.  A fixed label of the      *)
(* program ("Summary", "Python", ...) is a sequence holding the label as   *)
(* one token.  A relative path is the sequence of its segments (pathlib's  *)
(* parts), each segment a text.                                            *)
(***************************************************************************)
EXTENDS Integers, Sequences, FiniteSets, TLC

\* ------------------------------------------------------------------ bounds
\* How many files the project directory holds.
MaxFiles == 2
\* How many times the environment changes a file while a build runs.
MaxEnv == 1
\* How many exports one session starts.
MaxRuns == 1

\* --------------------------------------------------------------- characters
NL  == "\n"
NUL == "NUL"
\* A character outside ASCII (U+00E9).
EAcute == "U+00E9"
NonAscii == {EAcute}

UpperChars == <<"A","B","C","D","E","F","G","H","I","J","K","L","M",
                "N","O","P","Q","R","S","T","U","V","W","X","Y","Z">>
LowerChars == <<"a","b","c","d","e","f","g","h","i","j","k","l","m",
                "n","o","p","q","r","s","t","u","v","w","x","y","z">>

Range(s) == {s[i] : i \in 1..Len(s)}

Rep(c, n) == [i \in 1..n |-> c]

Min(a, b) == IF a <= b THEN a ELSE b

CharLower(c) ==
  IF \E i \in 1..26 : UpperChars[i] = c
  THEN LowerChars[CHOOSE i \in 1..26 : UpperChars[i] = c]
  ELSE c

CharUpper(c) ==
  IF \E i \in 1..26 : LowerChars[i] = c
  THEN UpperChars[CHOOSE i \in 1..26 : LowerChars[i] = c]
  ELSE c

\* str.lower / str.upper
StrLower(s) == [i \in 1..Len(s) |-> CharLower(s[i])]
StrUpper(s) == [i \in 1..Len(s) |-> CharUpper(s[i])]

\* str.count(c)
Count(s, c) == Cardinality({i \in 1..Len(s) : s[i] = c})

\* str.replace(c, d) for one-character c and d
StrReplace(s, c, d) == [i \in 1..Len(s) |-> IF s[i] = c THEN d ELSE s[i]]

\* str.lstrip(c)
RECURSIVE LStrip(_, _)
LStrip(s, c) == IF s # <<>> /\ Head(s) = c THEN LStrip(Tail(s), c) ELSE s

\* str.rstrip(c)
RECURSIVE RStrip(_, _)
RStrip(s, c) ==
  IF s # <<>> /\ s[Len(s)] = c THEN RStrip(SubSeq(s, 1, Len(s) - 1), c) ELSE s

\* str.strip(c)
Strip(s, c) == RStrip(LStrip(s, c), c)

\* s.split("\n"): the newline-delimited segments of s, at least one.
RECURSIVE SplitNL(_)
SplitNL(s) ==
  IF \A i \in 1..Len(s) : s[i] # NL
  THEN <<s>>
  ELSE LET k == CHOOSE i \in 1..Len(s) :
                  s[i] = NL /\ \A j \in 1..(i - 1) : s[j] # NL
       IN <<SubSeq(s, 1, k - 1)>> \o SplitNL(SubSeq(s, k + 1, Len(s)))

\* str.splitlines(): no line for the empty text, none after a final newline.
splitlines(s) ==
  IF s = <<>> THEN <<>>
  ELSE LET segs == SplitNL(s)
       IN IF segs[Len(segs)] = <<>> THEN SubSeq(segs, 1, Len(segs) - 1) ELSE segs

\* "\n".join(lines)
RECURSIVE JoinNL(_)
JoinNL(lines) ==
  IF lines = <<>> THEN <<>>
  ELSE IF Len(lines) = 1 THEN lines[1]
  ELSE lines[1] \o <<NL>> \o JoinNL(Tail(lines))

\* ------------------------------------------------------------ configuration
py   == <<".", "p", "y">>
md   == <<".", "m", "d">>
txt  == <<".", "t", "x", "t">>
json == <<".", "j", "s", "o", "n">>
yaml == <<".", "y", "a", "m", "l">>
yml  == <<".", "y", "m", "l">>
toml == <<".", "t", "o", "m", "l">>
ini  == <<".", "i", "n", "i">>
cfg  == <<".", "c", "f", "g">>
csv  == <<".", "c", "s", "v">>
tsv  == <<".", "t", "s", "v">>
js   == <<".", "j", "s">>
ts   == <<".", "t", "s">>
html == <<".", "h", "t", "m", "l">>
css  == <<".", "c", "s", "s">>
sh   == <<".", "s", "h">>
bat  == <<".", "b", "a", "t">>
ps1  == <<".", "p", "s", "1">>
sql  == <<".", "s", "q", "l">>

venv         == <<"v", "e", "n", "v">>
dot_venv     == <<".", "v", "e", "n", "v">>
dot_git      == <<".", "g", "i", "t">>
pycache      == <<"_", "_", "p", "y", "c", "a", "c", "h", "e", "_", "_">>
dot_idea     == <<".", "i", "d", "e", "a">>
dot_vscode   == <<".", "v", "s", "c", "o", "d", "e">>
node_modules == <<"n", "o", "d", "e", "_", "m", "o", "d", "u", "l", "e", "s">>

EXCLUDED_DIRS ==
  {venv, dot_venv, dot_git, pycache, dot_idea, dot_vscode, node_modules}

INCLUDE_EXTS ==
  {py, md, txt, json, yaml, yml, toml, ini, cfg, csv, tsv, js, ts, html, css,
   sh, bat, ps1, sql}

\* The sentinel group of the files directly under the root.
RootLabel == <<"_", "r", "o", "o", "t">>

\* Excel's limit on the length of a sheet name.
SheetNameMax == 31

\* How many bytes is_binary reads.
SniffLen == 512

\* os.sep
Sep == "/"

\* The characters openpyxl refuses in a sheet title.
ReservedChars == {"\\", "*", "?", ":", "/", "[", "]"}

\* ------------------------------------------------------------------ paths
\* pathlib's PurePath.suffix of a file name: from its last dot, unless that dot
\* is the name's first or last character.
LastDot(name) ==
  IF \E i \in 1..Len(name) : name[i] = "."
  THEN CHOOSE i \in 1..Len(name) :
         name[i] = "." /\ \A j \in (i + 1)..Len(name) : name[j] # "."
  ELSE 0

suffix(name) ==
  LET i == LastDot(name)
  IN IF 1 < i /\ i < Len(name) THEN SubSeq(name, i, Len(name)) ELSE <<>>

\* The name of the file a path leads to, and the directory that holds it.
NameOf(parts) == parts[Len(parts)]
DirOf(parts)  == SubSeq(parts, 1, Len(parts) - 1)

\* str(path): the segments joined by os.sep.
RECURSIVE PathStr(_)
PathStr(parts) ==
  IF parts = <<>> THEN <<>>
  ELSE IF Len(parts) = 1 THEN parts[1]
  ELSE parts[1] \o <<Sep>> \o PathStr(Tail(parts))

IsPrefix(d, parts) == Len(d) <= Len(parts) /\ SubSeq(parts, 1, Len(d)) = d

\* top_level (lines 100-101)
top_level(parts) == IF Len(parts) > 1 THEN parts[1] ELSE RootLabel

\* bytes.encode("ascii", "replace").decode(): "?" for each character outside
\* ASCII.
AsciiReplace(s) == [i \in 1..Len(s) |-> IF s[i] \in NonAscii THEN "?" ELSE s[i]]

\* sheet_safe (lines 93-97)
sheet_safe(name) ==
  LET replaced == StrReplace(StrReplace(name, Sep, "_"), ":", "_")
      cut      == SubSeq(replaced, 1, Min(SheetNameMax, Len(replaced)))
  IN AsciiReplace(cut)

\* mimetypes.guess_type by the file name's extension, in any letter case:
\* "text" for a text/* type, "other" for any other type, "none" when the
\* extension is not in the table.
TextMimeExts  == {py, md, txt, csv, tsv, html, css}
OtherMimeExts == {json}

guess_type(name) ==
  LET e == StrLower(suffix(name))
  IN IF e \in TextMimeExts THEN "text"
     ELSE IF e \in OtherMimeExts THEN "other"
     ELSE "none"

\* is_binary (lines 72-81) of a file record of the file system.
is_binary(f) ==
  IF guess_type(NameOf(f.parts)) = "other" THEN TRUE
  ELSE IF f.mode # "ok" THEN TRUE
  ELSE NUL \in Range(SubSeq(f.content, 1, Min(SniffLen, Len(f.content))))

\* Whether is_binary opens the file (its second stage).
Sniffed(f) == guess_type(NameOf(f.parts)) # "other"

\* The test of line 89.
Selected(f) == StrLower(suffix(NameOf(f.parts))) \in INCLUDE_EXTS /\ ~is_binary(f)

\* ------------------------------------------------------- the project trees
Long1 == Rep("a", SheetNameMax) \o <<"x">>
Long2 == Rep("a", SheetNameMax) \o <<"y">>
Cafe  == <<"c", "a", "f", EAcute>>
Star  == <<"s", "*", "r">>
Requirements == <<"r", "e", "q", "u", "i", "r", "e", "m", "e", "n", "t", "s">> \o txt

File(parts, content, mode) == [parts |-> parts, content |-> content, mode |-> mode]

\* The files a project tree is drawn from, in the order the directory listing
\* returns them.  mode: "ok", "noread" (open fails, stat works), "gone" (the
\* file no longer exists).
Tree ==
  << File(<< <<"a">> \o py >>,              <<"x", NL, "x">>,                 "ok"),
     File(<< <<"B", ".", "P", "Y">> >>,     <<"x", NL>>,                      "ok"),
     File(<< <<"c">> \o json >>,            <<"x">>,                          "ok"),
     File(<< <<"n">> \o py >>,              <<"x", NUL>>,                     "ok"),
     File(<< <<"u">> \o md >>,              <<"x">>,                          "noread"),
     File(<< Requirements >>,               <<"x", " ", NL>>,                 "ok"),
     File(<< <<"b">>, <<"z">> \o md >>,     <<NL, NL>>,                       "ok"),
     File(<< <<"b">>, <<"d">> \o md >>,     <<"x">>,                          "ok"),
     File(<< <<"b">>, venv, <<"c">> \o py >>,             <<"x">>,            "ok"),
     File(<< venv, <<"l", "i", "b">>, <<"v">> \o py >>,   <<"x">>,            "ok"),
     File(<< RootLabel, <<"r">> \o py >>,   <<>>,                             "ok"),
     File(<< Long1, <<"p">> \o ini >>,      <<NL, " ", "x", NL, " ", " ", "x", NL>>, "ok"),
     File(<< Long2, <<"q">> \o py >>,       <<" ", "x">>,                     "ok"),
     File(<< Cafe, <<"m">> \o py >>,        <<"x">>,                          "ok"),
     File(<< Star, <<"t">> \o py >>,        <<"x">>,                          "ok") >>

\* The position of a path in the listing order.
Rank(parts) == CHOOSE i \in 1..Len(Tree) :
                 Tree[i].parts = parts /\ \A j \in 1..(i - 1) : Tree[j].parts # parts

\* A set of positions of Tree as the sequence of those positions, ascending.
RECURSIVE Ascending(_)
Ascending(S) ==
  IF S = {} THEN <<>>
  ELSE LET m == CHOOSE x \in S : \A y \in S : x <= y
       IN <<m>> \o Ascending(S \ {m})

\* The files of tree t that exist.
Present(t) == {f \in t : f.mode # "gone"}

\* os.walk's filenames of directory d: the paths of the files directly in d.
filenames(t, d) ==
  LET ranks == {Rank(f.parts) : f \in {g \in Present(t) : DirOf(g.parts) = d}}
      seq   == Ascending(ranks)
  IN [i \in 1..Len(seq) |-> Tree[seq[i]].parts]

\* os.walk's dirnames of directory d: the names of the directories directly
\* in d (a directory exists when a file lies beneath it).
dirnames(t, d) ==
  LET under == {f \in Present(t) : IsPrefix(d, DirOf(f.parts)) /\ Len(DirOf(f.parts)) > Len(d)}
      names == {f.parts[Len(d) + 1] : f \in under}
      first(n) == CHOOSE r \in {Rank(f.parts) : f \in {g \in under : g.parts[Len(d) + 1] = n}} :
                    \A g \in under : g.parts[Len(d) + 1] = n => r <= Rank(g.parts)
      seq   == Ascending({first(n) : n \in names})
  IN [i \in 1..Len(seq) |-> Tree[seq[i]].parts[Len(d) + 1]]

\* The record of the file at a path.
FileAt(t, parts) == CHOOSE f \in t : f.parts = parts

\* ------------------------------------------------------------------- text
LeadingSpaces(line) ==
  IF \A i \in 1..Len(line) : line[i] = " " THEN Len(line)
  ELSE (CHOOSE i \in 1..Len(line) :
          line[i] # " " /\ \A j \in 1..(i - 1) : line[j] = " ") - 1

IsBlankLine(line) == \A i \in 1..Len(line) : line[i] = " "

\* textwrap.dedent: a line of spaces only becomes empty, and the indentation
\* common to the other lines is removed from each of them.
dedent(text) ==
  LET lines   == SplitNL(text)
      cleaned == [i \in 1..Len(lines) |->
                    IF IsBlankLine(lines[i]) THEN <<>> ELSE lines[i]]
      inked   == {i \in 1..Len(cleaned) : cleaned[i] # <<>>}
      margin  == IF inked = {} THEN 0
                 ELSE CHOOSE m \in {LeadingSpaces(cleaned[i]) : i \in inked} :
                        \A i \in inked : m <= LeadingSpaces(cleaned[i])
      cutLine(l) == IF l = <<>> THEN l ELSE SubSeq(l, margin + 1, Len(l))
  IN JoinNL([i \in 1..Len(cleaned) |-> cutLine(cleaned[i])])

\* black.format_str on the texts of the model: an indented first statement
\* does not parse; otherwise the blank lines around the code go and the text
\* ends with one newline; a text with no code formats to the empty text.
black_format_str(src) ==
  LET lines == SplitNL(src)
      inked == {i \in 1..Len(lines) : ~IsBlankLine(lines[i])}
      lo    == CHOOSE i \in inked : \A j \in inked : i <= j
      hi    == CHOOSE i \in inked : \A j \in inked : j <= i
  IN IF inked = {} THEN [ok |-> TRUE, text |-> <<>>]
     ELSE IF LeadingSpaces(lines[lo]) > 0
     THEN [ok |-> FALSE, text |-> <<"Cannot parse">>]
     ELSE [ok |-> TRUE,
           text |-> JoinNL([i \in 1..(hi - lo + 1) |-> RStrip(lines[lo + i - 1], " ")])
                    \o <<NL>>]

\* fmt_py (lines 56-68): black's formatting when black is installed, the
\* source as it is otherwise.
fmt_py(hasBlack, src) ==
  IF hasBlack THEN black_format_str(src) ELSE [ok |-> TRUE, text |-> src]

\* The try block of lines 159-164: the text build_excel goes on with.
ReadError(f) ==
  IF f.mode = "noread" THEN <<"Permission denied">>
  ELSE <<"No such file or directory">>

Placeholder(err) == <<"<<Error reading file: ">> \o err \o <<">>">>

read_source(hasBlack, f, ext) ==
  IF f.mode # "ok" THEN [failed |-> TRUE, src |-> Placeholder(ReadError(f))]
  ELSE IF ext # py THEN [failed |-> FALSE, src |-> f.content]
  ELSE LET r == fmt_py(hasBlack, f.content)
       IN IF r.ok THEN [failed |-> FALSE, src |-> r.text]
          ELSE [failed |-> TRUE, src |-> Placeholder(r.text)]

\* Line 166 counting the newline characters only.
line_count_no_last(src) == Count(src, NL)

\* Line 166.
line_count(src) == Count(src, NL) + 1

\* Line 190 and the lines line 191 enumerates.
content_lines(src) == splitlines(dedent(Strip(src, NL)))

\* lang_map (lines 120-140)
lang_map ==
  (py :> <<"Python">>) @@ (js :> <<"JavaScript">>) @@ (ts :> <<"TypeScript">>) @@
  (md :> <<"Markdown">>) @@ (json :> <<"JSON">>) @@ (yaml :> <<"YAML">>) @@
  (yml :> <<"YAML">>) @@ (html :> <<"HTML">>) @@ (css :> <<"CSS">>) @@
  (sh :> <<"Shell">>) @@ (bat :> <<"Batch">>) @@ (ps1 :> <<"PowerShell">>) @@
  (sql :> <<"SQL">>) @@ (csv :> <<"CSV">>) @@ (tsv :> <<"TSV">>) @@
  (toml :> <<"TOML">>) @@ (ini :> <<"INI">>) @@ (cfg :> <<"Config">>) @@
  (txt :> <<"Text">>)

\* Line 155.
language(ext) ==
  IF ext \in DOMAIN lang_map THEN lang_map[ext] ELSE StrUpper(LStrip(ext, "."))

\* by_lang[lang] += 1 on a Counter, which keeps its keys in insertion order.
count_lang(counter, lang) ==
  IF \E k \in 1..Len(counter) : counter[k].lang = lang
  THEN [k \in 1..Len(counter) |->
          IF counter[k].lang = lang
          THEN [lang |-> lang, n |-> counter[k].n + 1] ELSE counter[k]]
  ELSE Append(counter, [lang |-> lang, n |-> 1])

\* Counter.most_common(): by descending count, equal counts in insertion order.
RECURSIVE most_common(_)
most_common(counter) ==
  IF counter = <<>> THEN <<>>
  ELSE LET k == CHOOSE i \in 1..Len(counter) :
                  /\ \A j \in 1..Len(counter) : counter[j].n <= counter[i].n
                  /\ \A j \in 1..(i - 1) : counter[j].n < counter[i].n
       IN <<counter[k]>> \o
          most_common(SubSeq(counter, 1, k - 1) \o SubSeq(counter, k + 1, Len(counter)))

\* --------------------------------------------------------------- workbook
\* A sheet is its title and its rows; a row is its kind and its cells, left to
\* right.  A row no cell was written to is Blank.
Row(kind, cells) == [kind |-> kind, cells |-> cells]
Blank == Row("blank", <<>>)

\* Worksheet.max_row
max_row(rows) == IF rows = <<>> THEN 1 ELSE Len(rows)

\* Writing the cells of row r.
set_row(rows, r, row) ==
  [k \in 1..(IF r > Len(rows) THEN r ELSE Len(rows)) |->
     IF k = r THEN row ELSE IF k <= Len(rows) THEN rows[k] ELSE Blank]

\* Writing rows from row r on.
RECURSIVE set_rows(_, _, _)
set_rows(rows, r, new) ==
  IF new = <<>> THEN rows
  ELSE set_rows(set_row(rows, r, Head(new)), r + 1, Tail(new))

Titles(book) == {book[k].title : k \in 1..Len(book)}

\* openpyxl's title for a new sheet: a title in use gets the next free number.
free_title(book, title) ==
  IF title \notin Titles(book) THEN title
  ELSE title \o <<CHOOSE n \in 1..(Len(book) + 1) :
                    /\ title \o <<n>> \notin Titles(book)
                    /\ \A m \in 1..(n - 1) : title \o <<m>> \in Titles(book)>>

\* Workbook.create_sheet(title, 0): the sheet is added before the others.
create_sheet_front(book, title) ==
  IF Range(title) \cap ReservedChars # {}
  THEN [ok |-> FALSE, book |-> book]
  ELSE [ok |-> TRUE,
        book |-> <<[title |-> free_title(book, title), rows |-> <<>>]>> \o book]

\* Workbook.create_sheet: refused (ValueError) for a title with a reserved
\* character, else the sheet is added after the others.
create_sheet(book, title) ==
  IF Range(title) \cap ReservedChars # {}
  THEN [ok |-> FALSE, book |-> book]
  ELSE [ok |-> TRUE,
        book |-> Append(book, [title |-> free_title(book, title), rows |-> <<>>])]

\* The code fence marker, three backquotes.
Fence == <<"[fence]">>

SummaryTitle == <<"Summary">>
StatsTitle   == <<"Stats">>
ReadmeTitle  == <<"README">>

SummaryHeader ==
  Row("header", << <<"Relative Path">>, <<"Language">>, <<"Size (bytes)">>,
                   <<"Last Modified">>, <<"Sheet">> >>)

\* The section of one file on its group's page (lines 180-199).
section_rows(parts, ext, src) ==
  LET lines == content_lines(src)
  IN << Row("path", <<PathStr(parts)>>),
        Row("fence", << <<>>, Fence \o LStrip(ext, ".") >>) >>
     \o [k \in 1..Len(lines) |-> Row("line", <<k, lines[k]>>)]
     \o << Row("close", << <<>>, Fence >>) >>

\* The Stats page (lines 236-250).
stats_rows(nfiles, total, counter) ==
  LET common == most_common(counter)
  IN << Row("header", << <<"Metric">>, <<"Value">> >>),
        Row("stat", << <<"Total text files">>, nfiles >>),
        Row("stat", << <<"Total lines of code">>, total >>),
        Row("stat", << <<"Last modified">>, <<"now">> >>),
        Row("stat", << <<"Files by language">> >>) >>
     \o [k \in 1..Len(common) |-> Row("lang", <<common[k].lang, common[k].n>>)]

\* The README page's fixed rows (lines 259-268).
readme_rows ==
  << Row("text", << <<"Project Source Export">> >>),
     Blank,
     Row("text", << <<"How this workbook was generated:">> >>),
     Row("text", << <<"instructions">> >>) >>

ManifestNames ==
  << Requirements,
     <<"p", "y", "p", "r", "o", "j", "e", "c", "t">> \o toml,
     <<"e", "n", "v", "i", "r", "o", "n", "m", "e", "n", "t">> \o yml >>

\* Lines 271-277: the dependency files at the root, embedded in the README
\* page; reading one that cannot be read raises.
RECURSIVE embed_manifests(_, _, _)
embed_manifests(t, rows, names) ==
  IF names = <<>> THEN [ok |-> TRUE, rows |-> rows]
  ELSE LET here == {f \in Present(t) : f.parts = <<Head(names)>>}
           f    == CHOOSE g \in here : TRUE
           at   == max_row(rows) + 2
           lines == splitlines(f.content)
           body == [k \in 1..Len(lines) |-> Row("text", <<RStrip(lines[k], " ")>>)]
       IN IF here = {} THEN embed_manifests(t, rows, Tail(names))
          ELSE IF f.mode # "ok"
          THEN [ok |-> FALSE, rows |-> set_row(rows, at, Row("text", <<Head(names)>>))]
          ELSE embed_manifests(t,
                 set_rows(set_row(rows, at, Row("text", <<Head(names)>>)), at + 1, body),
                 Tail(names))

\* ------------------------------------------------------------------ state
VARIABLES
  fs,             \* the project directory: a set of file records
  black,          \* whether the black package is installed
  disk,           \* the output file: kind "absent", "old" (there before the
                  \* session) or "new", and the number of the run that wrote it
  disk0,          \* the output file as the current call of build_excel began
  saved_wb,       \* the sheets of the workbook last written to the output file
  caller,         \* "cli" (repo_exporter.py run as a script) or "gui"
  source_folder,  \* RepoExporterGUI.source_folder
  output_folder,  \* RepoExporterGUI.output_folder
  dialog,         \* the message box the form last showed
  pc,             \* where the program is
  stack,          \* os.walk: the directories still to list
  files,          \* the paths iter_files has yielded
  visited,        \* the directories os.walk listed in this run
  opened,         \* the paths is_binary opened in this run
  wb,             \* build_excel: the workbook's sheets, in order
  dir_sheets,     \* build_excel: group label -> position of its sheet in wb
  i,              \* build_excel: the position in files of the file to process
  total_loc,      \* build_excel
  by_lang,        \* build_excel
  notice,         \* what build_excel printed: "none", "no_files", "complete"
  exc,            \* the exception raised out of build_excel, or "none"
  srcs,           \* the text build_excel went on with for each file read
  read_failed,    \* the positions in files whose read raised
  failed_at,      \* the position in files being processed when exc was raised
  envN,           \* the environment's changes so far
  runs            \* the exports started so far

vars == <<fs, black, disk, disk0, saved_wb, caller, source_folder, output_folder, dialog,
          pc, stack, files, visited, opened, wb, dir_sheets, i, total_loc, by_lang,
          notice, exc, srcs, read_failed, failed_at, envN, runs>>

env_vars   == <<fs, black, envN>>
gui_vars   == <<source_folder, output_folder, dialog>>
walk_vars  == <<stack, files, visited, opened>>
build_vars == <<wb, dir_sheets, i, total_loc, by_lang, notice, exc, srcs, read_failed,
                failed_at, disk0>>

DistinctPaths(t) == \A f, g \in t : f.parts = g.parts => f = g

Trees == {t \in SUBSET Range(Tree) : Cardinality(t) <= MaxFiles /\ DistinctPaths(t)}

Init ==
  /\ fs \in Trees
  /\ black \in BOOLEAN
  /\ disk \in {[kind |-> k, run |-> 0] : k \in {"absent", "old"}}
  /\ disk0 = disk
  /\ saved_wb = <<>>
  /\ caller \in {"cli", "gui"}
  /\ source_folder = <<>>
  /\ output_folder = <<>>
  /\ dialog = "none"
  /\ pc = "idle"
  /\ stack = <<>>
  /\ files = <<>>
  /\ visited = {}
  /\ opened = {}
  /\ wb = <<>>
  /\ dir_sheets = <<>>
  /\ i = 0
  /\ total_loc = 0
  /\ by_lang = <<>>
  /\ notice = "none"
  /\ exc = "none"
  /\ srcs = <<>>
  /\ read_failed = {}
  /\ failed_at = 0
  /\ envN = 0
  /\ runs = 0

\* The call build_excel(root, out_file): its locals as a call starts.
CallBuildExcel ==
  /\ pc' = "walk"
  /\ stack' = << <<>> >>
  /\ files' = <<>>
  /\ visited' = {}
  /\ opened' = {}
  /\ wb' = <<>>
  /\ dir_sheets' = <<>>
  /\ i' = 0
  /\ total_loc' = 0
  /\ by_lang' = <<>>
  /\ notice' = "none"
  /\ exc' = "none"
  /\ srcs' = <<>>
  /\ disk0' = disk
  /\ read_failed' = {}
  /\ failed_at' = 0
  /\ runs' = runs + 1

\* ------------------------------------------------------------------- form
\* select_source (lines 36-39): the folder picker returns "" when cancelled.
select_source ==
  /\ caller = "gui" /\ pc = "idle"
  /\ \E folder \in {<<>>, <<"project">>} :
       source_folder' = IF folder # <<>> THEN folder ELSE source_folder
  /\ UNCHANGED <<output_folder, dialog, pc, runs, disk, saved_wb, caller>>
  /\ UNCHANGED <<env_vars, walk_vars, build_vars>>

\* select_destination (lines 41-44)
select_destination ==
  /\ caller = "gui" /\ pc = "idle"
  /\ \E folder \in {<<>>, <<"out">>} :
       output_folder' = IF folder # <<>> THEN folder ELSE output_folder
  /\ UNCHANGED <<source_folder, dialog, pc, runs, disk, saved_wb, caller>>
  /\ UNCHANGED <<env_vars, walk_vars, build_vars>>

\* run_export (lines 46-57): up to the call of build_excel.
run_export ==
  /\ caller = "gui" /\ pc = "idle" /\ runs < MaxRuns
  /\ IF source_folder = <<>> \/ output_folder = <<>>
     THEN /\ dialog' = "missing"
          /\ runs' = runs + 1
          /\ UNCHANGED <<pc, walk_vars, build_vars>>
     ELSE /\ dialog' = "none"
          /\ CallBuildExcel
  /\ UNCHANGED <<source_folder, output_folder, disk, saved_wb, caller, env_vars>>

\* run_export (line 58): build_excel returned, the form reports success.
run_export_success ==
  /\ caller = "gui" /\ pc = "returned"
  /\ dialog' = "success"
  /\ pc' = "idle"
  /\ UNCHANGED <<source_folder, output_folder, disk, saved_wb, caller, runs>>
  /\ UNCHANGED <<env_vars, walk_vars, build_vars>>

\* run_export (lines 59-60): build_excel raised, the form reports the error.
run_export_except ==
  /\ caller = "gui" /\ pc = "raised"
  /\ dialog' = "error"
  /\ pc' = "idle"
  /\ UNCHANGED <<source_folder, output_folder, disk, saved_wb, caller, runs>>
  /\ UNCHANGED <<env_vars, walk_vars, build_vars>>

\* ------------------------------------------------------------ command line
\* The script's main block (lines 285-297), up to the call of build_excel.
main ==
  /\ caller = "cli" /\ pc = "idle" /\ runs < MaxRuns
  /\ CallBuildExcel
  /\ UNCHANGED <<gui_vars, disk, saved_wb, caller, env_vars>>

\* The script ends: build_excel returned, or its exception ends the process.
main_exit ==
  /\ caller = "cli" /\ pc \in {"returned", "raised"}
  /\ pc' = "exit"
  /\ UNCHANGED <<gui_vars, disk, saved_wb, caller, runs>>
  /\ UNCHANGED <<env_vars, walk_vars, build_vars>>

\* --------------------------------------------------------------- selector
\* Line 86 without its filter: os.walk goes on into every directory.
pruned_none(names) == names

\* Line 86: the directories os.walk goes on into.
pruned(names) == SelectSeq(names, LAMBDA d : d \notin EXCLUDED_DIRS)

\* Lines 87-90: the files of one directory that iter_files yields.
yielded(t, paths) == SelectSeq(paths, LAMBDA p : Selected(FileAt(Present(t), p)))

\* Lines 88-89: the files of one directory is_binary opens.
sniffed(t, paths) ==
  {paths[k] : k \in {j \in 1..Len(paths) :
      /\ StrLower(suffix(NameOf(paths[j]))) \in INCLUDE_EXTS
      /\ Sniffed(FileAt(Present(t), paths[j]))}}

\* iter_files (lines 84-90): one turn of the loop over os.walk, which lists a
\* directory, prunes its subdirectories and yields its files.
iter_files ==
  /\ pc = "walk" /\ stack # <<>>
  /\ LET d     == Head(stack)
         kept  == pruned(dirnames(fs, d))
         names == filenames(fs, d)
     IN /\ stack' = [k \in 1..Len(kept) |-> Append(d, kept[k])] \o Tail(stack)
        /\ files' = files \o yielded(fs, names)
        /\ visited' = visited \cup {d}
        /\ opened' = opened \cup sniffed(fs, names)
  /\ UNCHANGED <<pc, runs, disk, saved_wb, caller, gui_vars, env_vars, build_vars>>

\* ---------------------------------------------------------------- builder
\* Line 107 without its early return.
no_files_never(selection) == FALSE

\* Line 107: the test for an empty selection.
no_files(selection) == selection = <<>>

\* build_excel (lines 106-150): the selection is complete; with no file the
\* notice is printed and the call returns, else the workbook starts with its
\* Summary sheet.
build_start ==
  /\ pc = "walk" /\ stack = <<>>
  /\ IF no_files(files)
     THEN /\ notice' = "no_files"
          /\ pc' = "returned"
          /\ UNCHANGED <<wb, i>>
     ELSE /\ wb' = [create_sheet(<<>>, SummaryTitle).book
                       EXCEPT ![1].rows = <<SummaryHeader>>]
          /\ i' = 1
          /\ pc' = "loop"
          /\ UNCHANGED notice
  /\ UNCHANGED <<dir_sheets, total_loc, by_lang, exc, srcs, read_failed, failed_at, disk0>>
  /\ UNCHANGED <<runs, disk, saved_wb, caller, gui_vars, env_vars, walk_vars>>

\* Line 178 with no separator row.
next_section_row_adjacent(rows) == max_row(rows) + 1

\* Line 178: the row the next section of a sheet starts at.
next_section_row(rows) == max_row(rows) + 2

\* Lines 169-178: the sheet of a file's group and the row its section starts
\* at; a group met for the first time gets a new sheet.
group_sheet(book, sheets, parts) ==
  LET sheet_title == top_level(parts)
  IN IF sheet_title \notin DOMAIN sheets
     THEN LET made == create_sheet(book, sheet_safe(sheet_title))
          IN [ok |-> made.ok, book |-> made.book, at |-> Len(made.book),
              sheets |-> IF made.ok
                         THEN sheets @@ (sheet_title :> Len(made.book)) ELSE sheets,
              current_row |-> 1]
     ELSE [ok |-> TRUE, book |-> book, at |-> sheets[sheet_title], sheets |-> sheets,
           current_row |-> next_section_row(book[sheets[sheet_title]].rows)]

\* Lines 202-210: the file's row of the Summary sheet.
summary_row(parts, lang, f, title) ==
  [kind |-> "file",
   cells |-> <<PathStr(parts), lang, Len(f.content), <<"mtime">>, sheet_safe(title)>>,
   hyperlink |-> PathStr(parts)]

\* build_excel (lines 152-212): one turn of the loop over the selection.
process_file ==
  /\ pc = "loop" /\ i <= Len(files)
  /\ LET p     == files[i]
         f     == FileAt(fs, p)
         ext   == StrLower(suffix(NameOf(p)))
         lang  == language(ext)
         read  == read_source(black, f, ext)
         g     == group_sheet(wb, dir_sheets, p)
         rows  == set_rows(g.book[g.at].rows, g.current_row,
                           section_rows(p, ext, read.src))
         wrote == [g.book EXCEPT ![g.at].rows = rows]
     IN /\ by_lang' = count_lang(by_lang, lang)
        /\ total_loc' = total_loc + line_count(read.src)
        /\ srcs' = Append(srcs, read.src)
        /\ read_failed' = IF read.failed THEN read_failed \cup {i} ELSE read_failed
        /\ dir_sheets' = g.sheets
        /\ IF ~g.ok
           THEN \* create_sheet refuses the title
                /\ wb' = wb
                /\ exc' = "ValueError"
                /\ failed_at' = i
                /\ pc' = "raised"
                /\ i' = i
           ELSE IF f.mode = "gone"
           THEN \* abs_p.stat() finds no file
                /\ wb' = wrote
                /\ exc' = "FileNotFoundError"
                /\ failed_at' = i
                /\ pc' = "raised"
                /\ i' = i
           ELSE /\ wb' = [wrote EXCEPT ![1].rows =
                            Append(@, summary_row(p, lang, f, top_level(p)))]
                /\ i' = i + 1
                /\ UNCHANGED <<exc, failed_at, pc>>
  /\ UNCHANGED <<notice, disk0>>
  /\ UNCHANGED <<runs, disk, saved_wb, caller, gui_vars, env_vars, walk_vars>>

\* build_excel (lines 214-281): after the loop, the Stats sheet, the README
\* sheet and the save, which the file system may refuse.
finish ==
  /\ pc = "loop" /\ i > Len(files)
  /\ LET s0     == create_sheet(wb, StatsTitle).book
         s1     == [s0 EXCEPT ![Len(s0)].rows = stats_rows(Len(files), total_loc, by_lang)]
         r0     == create_sheet(s1, ReadmeTitle).book
         readme == embed_manifests(fs, readme_rows, ManifestNames)
         r1     == [r0 EXCEPT ![Len(r0)].rows = readme.rows]
     IN /\ wb' = r1
        /\ \E writable \in BOOLEAN :
             IF ~readme.ok
             THEN /\ exc' = "PermissionError"
                  /\ pc' = "raised"
                  /\ UNCHANGED <<disk, saved_wb, notice>>
             ELSE IF ~writable
             THEN /\ exc' = "OSError"
                  /\ pc' = "raised"
                  /\ UNCHANGED <<disk, saved_wb, notice>>
             ELSE /\ disk' = [kind |-> "new", run |-> runs]
                  /\ saved_wb' = r1
                  /\ notice' = "complete"
                  /\ pc' = "returned"
                  /\ UNCHANGED exc
  /\ UNCHANGED <<dir_sheets, i, total_loc, by_lang, srcs, read_failed, failed_at, disk0>>
  /\ UNCHANGED <<runs, caller, gui_vars, env_vars, walk_vars>>

\* ------------------------------------------------------------ environment
\* The files build_excel reads next: the selected file the loop comes to, or,
\* the loop over, the dependency files of the README sheet.
Awaited ==
  IF i <= Len(files)
  THEN {f \in fs : f.parts = files[i]}
  ELSE {f \in fs : \E k \in 1..Len(ManifestNames) : f.parts = <<ManifestNames[k]>>}

\* While the workbook is built, a file loses its read permission or is deleted
\* before build_excel reads it.  A change is seen only when the file is read,
\* so it is taken just before that read.
env_change ==
  /\ pc = "loop" /\ envN < MaxEnv
  /\ \E f \in {g \in Awaited : g.mode = "ok"} : \E m \in {"noread", "gone"} :
       fs' = (fs \ {f}) \cup {[f EXCEPT !.mode = m]}
  /\ envN' = envN + 1
  /\ UNCHANGED <<black, runs, disk, saved_wb, caller, pc>>
  /\ UNCHANGED <<gui_vars, walk_vars, build_vars>>

Next ==
  \/ select_source
  \/ select_destination
  \/ run_export
  \/ run_export_success
  \/ run_export_except
  \/ main
  \/ main_exit
  \/ iter_files
  \/ build_start
  \/ process_file
  \/ finish
  \/ env_change

Spec == Init /\ [][Next]_vars

\* ----------------------------------------------------------- properties
HasExcluded(parts) == \E j \in 1..Len(parts) : parts[j] \in EXCLUDED_DIRS

\* The selection of the current call of build_excel is complete.
WalkDone ==
  \/ pc \in {"loop", "returned", "raised", "exit"}
  \/ pc = "idle" /\ dialog \in {"success", "error"}

\* The current call of build_excel has ended.
BuildEnded ==
  \/ pc \in {"returned", "raised", "exit"}
  \/ pc = "idle" /\ dialog \in {"success", "error"}

\* The current call of build_excel wrote the output file.
Saved == notice = "complete"

\* The files whose section is on its page: those the loop is through with,
\* and the one whose stat raised after its section was written.
SectionsWritten == IF exc = "FileNotFoundError" THEN 1..i ELSE 1..(i - 1)

\* Row r of a sheet's rows is the header row of the section of a path.
IsHeaderOf(rows, r, parts) ==
  rows[r].kind = "path" /\ rows[r].cells = <<PathStr(parts)>>

\* The position in the workbook of the page that holds the section of a path.
PagesOf(book, parts) ==
  {k \in 1..Len(book) : \E r \in 1..Len(book[k].rows) :
     IsHeaderOf(book[k].rows, r, parts)}

\* C1: no path iter_files yields has a segment that is an excluded directory
\* name, at any depth, and the walk neither lists a directory nor opens a file
\* with such a segment: excluded directories are pruned before the walk
\* descends.
C1_ExcludedPruned ==
  /\ \A k \in 1..Len(files) : ~HasExcluded(files[k])
  /\ \A d \in visited : ~HasExcluded(d)
  /\ \A p \in opened : ~HasExcluded(p)

\* C1 witness: the walk is over a tree that holds an eligible file under an
\* excluded directory below the first level, and it selected another file.
C1_Witness ==
  /\ pc = "loop"
  /\ files # <<>>
  /\ \E f \in fs : /\ Len(f.parts) > 2 /\ f.parts[2] \in EXCLUDED_DIRS
                   /\ f.mode = "ok"
                   /\ StrLower(suffix(NameOf(f.parts))) \in INCLUDE_EXTS

\* C2 (as claimed): build_excel does not abort on a selected file whose
\* content cannot be read: no exception leaves the loop while that file is
\* processed, and its section holds the placeholder with the error text.
C2_UnreadableDoesNotAbort ==
  \A k \in read_failed :
    /\ ~(pc = "raised" /\ failed_at = k)
    /\ k \in SectionsWritten =>
         \E n \in PagesOf(wb, files[k]) : \E r \in 1..Len(wb[n].rows) :
           /\ wb[n].rows[r].kind = "line"
           /\ wb[n].rows[r].cells = <<1, Placeholder(ReadError(FileAt(fs, files[k])))>>

\* The group labels of a selection, in the order they are first met.
RECURSIVE FirstMet(_, _)
FirstMet(selection, seen) ==
  IF selection = <<>> THEN <<>>
  ELSE LET g == top_level(Head(selection))
       IN IF g \in seen THEN FirstMet(Tail(selection), seen)
          ELSE <<g>> \o FirstMet(Tail(selection), seen \cup {g})

\* The first file of a group in a selection.
FirstOf(selection, g) ==
  selection[CHOOSE k \in 1..Len(selection) :
              /\ top_level(selection[k]) = g
              /\ \A j \in 1..(k - 1) : top_level(selection[j]) # g]

\* Pages n.. of a book are the content pages of the groups, in order.
ContentPagesFrom(book, n, groups) ==
  \A j \in 1..Len(groups) :
    /\ n + j - 1 <= Len(book)
    /\ book[n + j - 1].rows # <<>>
    /\ IsHeaderOf(book[n + j - 1].rows, 1, FirstOf(files, groups[j]))

\* C3 (as claimed): a written workbook's pages are Summary, Stats, README,
\* then the content pages in the order the groups are first met.
C3_OrderAsClaimed ==
  Saved =>
    LET groups == FirstMet(files, {})
    IN /\ Len(saved_wb) = Len(groups) + 3
       /\ saved_wb[1].title = SummaryTitle
       /\ saved_wb[2].title = StatsTitle
       /\ saved_wb[3].title = ReadmeTitle
       /\ ContentPagesFrom(saved_wb, 4, groups)

\* C3 (amended): a written workbook's pages are Summary, then the content
\* pages in the order the groups are first met, then Stats, then README.
C3_PageOrder ==
  Saved =>
    LET groups == FirstMet(files, {})
        n      == Len(saved_wb)
    IN /\ n = Len(groups) + 3
       /\ saved_wb[1].title = SummaryTitle
       /\ saved_wb[1].rows[1] = SummaryHeader
       /\ ContentPagesFrom(saved_wb, 2, groups)
       /\ saved_wb[n - 1].title = StatsTitle
       /\ saved_wb[n - 1].rows[1].kind = "header"
       /\ saved_wb[n].title = ReadmeTitle
       /\ saved_wb[n].rows[1].kind = "text"

\* C3 witness: a workbook was written for a selection of more than one
\* group, the root group met after a directory's.
C3_Witness ==
  /\ Saved
  /\ Len(FirstMet(files, {})) > 1
  /\ FirstMet(files, {})[1] # RootLabel
  /\ RootLabel \in Range(FirstMet(files, {}))
  /\ Len(saved_wb) = Len(FirstMet(files, {})) + 3

\* C4: a call of build_excel whose selection is empty creates no page, leaves
\* the output file as it was, prints the no-files notice and raises nothing.
C4_EmptySelection ==
  (BuildEnded /\ files = <<>>) =>
    /\ wb = <<>>
    /\ disk = disk0
    /\ notice = "no_files"
    /\ exc = "none"
    /\ pc # "raised"

\* C4 witness: build_excel has returned from a tree that holds files, none of
\* them selected, with an output file already there.
C4_Witness ==
  /\ pc = "returned"
  /\ files = <<>>
  /\ fs # {}
  /\ disk.kind = "old"

\* The total on the Stats page of a book.
StatsPage(book) == book[CHOOSE k \in 1..Len(book) : book[k].title = StatsTitle]
StatsFiles(book) == StatsPage(book).rows[2].cells[2]
StatsLines(book) == StatsPage(book).rows[3].cells[2]

RECURSIVE Sum(_)
Sum(ns) == IF ns = <<>> THEN 0 ELSE Head(ns) + Sum(Tail(ns))

\* Every file of the selection was read, and read as it is on disk.
ReadAsIs ==
  /\ Len(srcs) = Len(files)
  /\ \A k \in 1..Len(files) : srcs[k] = FileAt(fs, files[k]).content

\* C5 (as claimed): the total line count is the sum of the files' line
\* counts, a file of k lines counting as k whether or not its last line ends
\* with a newline (stated for the files read as they are on disk).
C5_TotalAsClaimed ==
  (Saved /\ ReadAsIs) =>
    /\ StatsFiles(saved_wb) = Len(files)
    /\ StatsLines(saved_wb) =
         Sum([k \in 1..Len(files) |-> Len(splitlines(FileAt(fs, files[k]).content))])

\* C5 (amended): the total line count is the sum, over the selected files, of
\* the number of newline-delimited segments of the text obtained for the file
\* (one more than its newline characters), so a file of k lines counts as k
\* when its last line has no newline and as k + 1 when it has one.
C5_TotalLines ==
  Saved =>
    /\ StatsFiles(saved_wb) = Len(files)
    /\ Len(srcs) = Len(files)
    /\ StatsLines(saved_wb) = Sum([k \in 1..Len(srcs) |-> Len(SplitNL(srcs[k]))])

\* C5 witness: a 2-line a.py and a 1-line b/d.md, neither ending with a
\* newline nor reformatted: 2 files and 3 lines.
C5_Witness ==
  /\ Saved
  /\ ~black
  /\ files = << << <<"a">> \o py >>, << <<"b">>, <<"d">> \o md >> >>
  /\ StatsFiles(saved_wb) = 2
  /\ StatsLines(saved_wb) = 3

\* The group of a path as the claim has it: the root group for a file directly
\* under the root, else the group of its first segment.
GroupOf(parts) == IF Len(parts) > 1 THEN <<"dir", parts[1]>> ELSE <<"root">>

\* C6 (as claimed): every section is on one page, and two files are on the
\* same page exactly when they are of the same group.
C6_GroupsArePages ==
  \A a, b \in SectionsWritten :
    /\ Cardinality(PagesOf(wb, files[a])) = 1
    /\ (PagesOf(wb, files[a]) = PagesOf(wb, files[b]))
         <=> (GroupOf(files[a]) = GroupOf(files[b]))

\* C7 (as claimed): the page name sheet_safe derives from the group label of
\* a file build_excel has come to is at most 31 characters long, holds no
\* reserved character and only ASCII, and creating the page does not fail.
C7_SheetNameValid ==
  \A k \in 1..Len(files) :
    (k < i \/ failed_at = k) =>
      LET name == sheet_safe(top_level(files[k]))
      IN /\ Len(name) <= SheetNameMax
         /\ Range(name) \cap ReservedChars = {}
         /\ Range(name) \cap NonAscii = {}
         /\ ~(exc = "ValueError" /\ failed_at = k)

\* The sections of a page: the paths of its header rows, top to bottom.
Headers(rows) ==
  LET at == SelectSeq([r \in 1..Len(rows) |-> r], LAMBDA r : rows[r].kind = "path")
  IN [k \in 1..Len(at) |-> rows[at[k]].cells[1]]

\* The paths of the files of a group whose section is written, in selection
\* order.
WrittenOf(g) ==
  LET ks == SelectSeq([k \in 1..Len(files) |-> k],
                      LAMBDA k : k \in SectionsWritten /\ top_level(files[k]) = g)
  IN [k \in 1..Len(ks) |-> PathStr(files[ks[k]])]

\* C8: on every content page the sections are in selection order, the first
\* starts at row 1, a blank row lies only between a closing fence and the next
\* header, and exactly one lies there.
C8_OneBlankRow ==
  \A g \in DOMAIN dir_sheets :
    LET rows == wb[dir_sheets[g]].rows
    IN /\ Headers(rows) = WrittenOf(g)
       /\ rows # <<>> => rows[1].kind = "path"
       /\ \A r \in 1..Len(rows) :
            /\ rows[r].kind = "blank" =>
                 /\ 1 < r /\ r < Len(rows)
                 /\ rows[r - 1].kind = "close"
                 /\ rows[r + 1].kind = "path"
            /\ (rows[r].kind = "close" /\ r < Len(rows)) => rows[r + 1].kind = "blank"
            /\ (rows[r].kind = "path" /\ r > 1) => rows[r - 1].kind = "blank"
            /\ rows[r].kind = "path" =>
                 /\ r < Len(rows) /\ rows[r + 1].kind = "fence"
                 /\ \E c \in (r + 2)..Len(rows) :
                      /\ rows[c].kind = "close"
                      /\ \A m \in (r + 2)..(c - 1) :
                           rows[m].kind = "line" /\ rows[m].cells[1] = m - r - 1

\* C8 witness: a page holds more than one section, and a section with no
\* line is followed by another.
C8_Witness ==
  \E g \in DOMAIN dir_sheets :
    LET rows == wb[dir_sheets[g]].rows
    IN /\ Len(Headers(rows)) > 1
       /\ \E r \in 2..(Len(rows) - 2) :
            /\ rows[r].kind = "fence" /\ rows[r + 1].kind = "close"
            /\ rows[r + 2].kind = "blank"

\* A file iter_files is to yield: its extension is in the inclusion set in any
\* letter case, it is in no excluded directory, readable, and has no NUL among
\* its first bytes.
Eligible(f) ==
  /\ StrLower(suffix(NameOf(f.parts))) \in INCLUDE_EXTS
  /\ ~HasExcluded(DirOf(f.parts))
  /\ f.mode = "ok"
  /\ NUL \notin Range(SubSeq(f.content, 1, Min(SniffLen, Len(f.content))))

\* C9 (as claimed): every eligible file is yielded exactly once.
C9_SelectorComplete ==
  WalkDone =>
    \A f \in fs : Eligible(f) =>
      Cardinality({k \in 1..Len(files) : files[k] = f.parts}) = 1

\* C10 (as claimed): the form shows its success dialog only when the call of
\* build_excel wrote the output file.
C10_SuccessOnlyIfWritten ==
  dialog = "success" => (Saved /\ disk = [kind |-> "new", run |-> runs])

====
